---- MODULE Spec2Model ----
(***************************************************************************)
(* A model of the command-dispatch calculator: the executable units         *)
(* (app/plugins/operations), the CommandHandler (app/commands), the         *)
(* PluginManager registry (app/plugins), the history commands               *)
(* (app/plugins/history) and the Calculator facade (app/calculator.py).     *)
(***************************************************************************)
EXTENDS Integers, Sequences, FiniteSets, TLC

VARIABLES
    history,            \* CommandHandler.history: sequence of executed units
    max_history_size,   \* CommandHandler.max_history_size
    plugins,            \* PluginManager._plugins: category -> (name -> plugin class)
    type_order,         \* insertion order of the keys of PluginManager._plugins
    importable,         \* environment: module name -> "ok" | "ImportError"
    files,              \* environment: path -> "absent" or the CSV rows of the file
    constructed,        \* TRUE once Calculator.__init__ has returned
    history_file,       \* Calculator.history_file
    operations,         \* Calculator._operations
    history_data,       \* Calculator._history_data: the rows of the DataFrame
    method_cache,       \* Calculator._method_cache: name -> closure of the callable
    outcome,            \* the last call made and how it ended
    log,                \* units a caller of the handler executed since its last clear
    direct_add,         \* add_to_history was called directly since the last clear
    reg_log,            \* (category, name) -> the plugin class registered last under it
    initial_methods,    \* the names Calculator.__init__ exposed as callables
    record_run,         \* successful operation calls since the record history was
                        \* last empty, -1 once a record of the run was deleted
    stdin,              \* main.py: the lines input() has still to return
    loops,              \* main.py: the prompt loops running, innermost last
    printed,            \* main.py: the last line printed by a prompt loop
    pending             \* main.py: what input() gave and the loop has yet to handle

vars == << history, max_history_size, plugins, type_order, importable, files,
           constructed, history_file, operations, history_data, method_cache,
           outcome, log, direct_add, reg_log, initial_methods, record_run,
           stdin, loops, printed, pending >>

handlerVars == << history, max_history_size, log, direct_add >>
registryVars == << plugins, type_order, reg_log >>
calcVars ==
    << constructed, history_file, operations, history_data, method_cache,
       initial_methods, record_run >>
envVars == << importable, files >>
promptVars == << stdin, loops, printed, pending >>

----------------------------------------------------------------------------
(* Bounds of the model.                                                     *)

\* largest max_history_size a CommandHandler is configured with
MaxM == 2
\* most units appended to one handler between two clears
MaxExec == 3
\* most rows of the Calculator's DataFrame
MaxRecords == 2

----------------------------------------------------------------------------
(* Decimal operands.  A Decimal is the exact rational << n, d >> in lowest   *)
(* terms with d > 0.                                                         *)

Abs(x) == IF x < 0 THEN -x ELSE x

RECURSIVE GCD(_, _)
GCD(a, b) == IF b = 0 THEN a ELSE GCD(b, a % b)

Dec(n, d) ==
    LET g == GCD(Abs(n), Abs(d))
        s == IF d < 0 THEN -1 ELSE 1
    IN  << (s * n) \div g, (s * d) \div g >>

DecAdd(x, y) == Dec(x[1] * y[2] + y[1] * x[2], x[2] * y[2])
DecSub(x, y) == Dec(x[1] * y[2] - y[1] * x[2], x[2] * y[2])
DecMul(x, y) == Dec(x[1] * y[1], x[2] * y[2])
DecDiv(x, y) == Dec(x[1] * y[2], x[2] * y[1])
DecIsZero(x) == x[1] = 0

Zero == Dec(0, 1)
One == Dec(1, 1)

\* the operands the calls of the model are made with
Operands == { Zero, One }

\* float(x) of a Decimal: the double nearest to x
ToFloat(x) == [float |-> x]

\* Decimal(f) of a double: the exact value of the double
DecimalOfFloat(f) == f.float

\* f % g on doubles with g non-zero: f - g * floor(f / g), the sign of g
FloatMod(f, g) ==
    LET q == DecDiv(f.float, g.float)
        floor == q[1] \div q[2]
    IN  [float |-> DecSub(f.float, DecMul(g.float, Dec(floor, 1)))]

----------------------------------------------------------------------------
(* The arithmetic context of the decimal module.  Every arithmetic result   *)
(* is rounded half-even to Prec significant digits, and a result whose      *)
(* adjusted exponent exceeds Emax raises decimal.Overflow (the trap is      *)
(* enabled by default).  Python's defaults are 28 digits and 999999; the    *)
(* model keeps the mechanism at a small scale.  Operands are built from     *)
(* text and are not rounded.  Results stay far from Emin.                   *)

\* significant digits of the context
Prec == 3
\* largest adjusted exponent of a result
Emax == 2

RECURSIVE Pow10(_)
Pow10(k) == IF k <= 0 THEN 1 ELSE 10 * Pow10(k - 1)

RECURSIVE AdjustedUp(_, _, _)
\* the largest e >= from with d * 10^e <= n
AdjustedUp(n, d, from) ==
    IF n >= d * Pow10(from + 1) THEN AdjustedUp(n, d, from + 1) ELSE from

RECURSIVE AdjustedDown(_, _, _)
\* the largest e <= from with d <= n * 10^(-e)
AdjustedDown(n, d, from) ==
    IF n * Pow10(-from) >= d THEN from ELSE AdjustedDown(n, d, from - 1)

\* the adjusted exponent of a non-zero x: floor(log10 |x|)
Adjusted(x) ==
    IF Abs(x[1]) >= x[2] THEN AdjustedUp(Abs(x[1]), x[2], 0)
    ELSE AdjustedDown(Abs(x[1]), x[2], -1)

\* num / den rounded half-even to an integer (ROUND_HALF_EVEN)
RoundHalfEven(num, den) ==
    LET q == num \div den
        r == num % den
    IN  IF 2 * r > den \/ (2 * r = den /\ q % 2 = 1) THEN q + 1 ELSE q

\* x rounded half-even to a multiple of 10^(-shift)
Quantize(x, shift) ==
    Dec((IF x[1] < 0 THEN -1 ELSE 1)
            * RoundHalfEven(Abs(x[1]) * Pow10(shift), x[2] * Pow10(-shift))
            * Pow10(-shift),
        Pow10(shift))

\* x rounded half-even to Prec significant digits
RoundToPrec(x) ==
    IF x[1] = 0 THEN x ELSE Quantize(x, Prec - 1 - Adjusted(x))

\* the rounded result, or decimal.Overflow when its exponent is above Emax
Finalize(rounded) ==
    IF rounded[1] # 0 /\ Adjusted(rounded) > Emax
    THEN [ok |-> FALSE, value |-> [type |-> "Overflow", msg |-> "decimal.Overflow"]]
    ELSE [ok |-> TRUE, value |-> rounded]

\* the result of an arithmetic operation whose exact value is x
DecimalContext(x) == Finalize(RoundToPrec(x))

----------------------------------------------------------------------------
(* Executable units: Command subclasses of app/plugins/operations.          *)

Returned(v) == [ok |-> TRUE, value |-> v]
Raised(type, msg) == [ok |-> FALSE, value |-> [type |-> type, msg |-> msg]]

Command(cls, a, b) == [class |-> cls, a |-> a, b |-> b]

CommandName(cls) ==
    CASE cls = "AddCommand" -> "add"
      [] cls = "SubtractCommand" -> "subtract"
      [] cls = "MultiplyCommand" -> "multiply"
      [] cls = "DivideCommand" -> "divide"
      [] cls = "MockCommand" -> "mock_command"
      [] cls = "ModuloCommand" -> "modulo"

AddExecute(cmd) == DecimalContext(DecAdd(cmd.a, cmd.b))
SubtractExecute(cmd) == DecimalContext(DecSub(cmd.a, cmd.b))
MultiplyExecute(cmd) == DecimalContext(DecMul(cmd.a, cmd.b))

DivideExecuteNoCheck(cmd) ==
    IF DecIsZero(cmd.b) THEN Returned(Zero) ELSE DecimalContext(DecDiv(cmd.a, cmd.b))

DivideExecute(cmd) ==
    IF DecIsZero(cmd.b)
    THEN Raised("ValueError", "Division by zero is not allowed")
    ELSE DecimalContext(DecDiv(cmd.a, cmd.b))

\* ModuloCommand.execute of the plugin written by test_dynamic_plugin_loading
ModuloExecute(cmd) ==
    IF DecIsZero(cmd.b)
    THEN Raised("ValueError", "Modulo by zero is not allowed")
    ELSE Returned(DecimalOfFloat(FloatMod(ToFloat(cmd.a), ToFloat(cmd.b))))

CommandExecute(cmd) ==
    CASE cmd.class = "AddCommand" -> AddExecute(cmd)
      [] cmd.class = "SubtractCommand" -> SubtractExecute(cmd)
      [] cmd.class = "MultiplyCommand" -> MultiplyExecute(cmd)
      [] cmd.class = "DivideCommand" -> DivideExecute(cmd)
      [] cmd.class = "MockCommand" -> AddExecute(cmd)
      [] cmd.class = "ModuloCommand" -> ModuloExecute(cmd)

----------------------------------------------------------------------------
(* CommandHandler (app/commands/command_handler.py).                        *)

\* Python's s[start:] on a list: a negative start counts from the end and
\* is clamped to the front; -0 is 0, the front of the list.
PySliceFrom(s, start) ==
    LET n == Len(s)
        i == IF start < 0 THEN (IF start + n < 0 THEN 0 ELSE start + n)
             ELSE (IF start > n THEN n ELSE start)
    IN  SubSeq(s, i + 1, n)

AddToHistoryKeepOldest(h, m, cmd) ==
    LET h1 == Append(h, cmd)
    IN  IF Len(h1) > m THEN SubSeq(h1, 1, m) ELSE h1

\* CommandHandler.add_to_history: the history after appending cmd
AddToHistory(h, m, cmd) ==
    LET h1 == Append(h, cmd)
    IN  IF Len(h1) > m THEN PySliceFrom(h1, -m) ELSE h1

HandlerExecuteRecordFirst(h, m, cmd) ==
    LET r == CommandExecute(cmd)
    IN  [history |-> AddToHistory(h, m, cmd), result |-> r]

\* CommandHandler.execute: the history after the call and what the call
\* returns or raises (the except clause re-raises the unit's own error)
HandlerExecute(h, m, cmd) ==
    LET r == CommandExecute(cmd)
    IN  IF r.ok
        THEN [history |-> AddToHistory(h, m, cmd), result |-> r]
        ELSE [history |-> h, result |-> r]

\* what is recorded of a call: its name, its arguments by name, whether it
\* returned or raised, and the value returned or the error raised
Call(name, args, r, returned) ==
    [call |-> name, args |-> args,
     kind |-> IF r.ok THEN "return" ELSE "raise",
     value |-> IF r.ok THEN returned ELSE r.value]

NoArgs == [none |-> TRUE]
NoneValue == [none |-> TRUE]

None == "None"

\* the units handed to a CommandHandler directly
HandlerUnits ==
    { Command("AddCommand", a, One) : a \in Operands }
        \cup { Command("DivideCommand", One, b) : b \in Operands }

Handler_execute(cmd) ==
    /\ LET x == HandlerExecute(history, max_history_size, cmd)
       IN  /\ x.result.ok => (Len(log) < MaxExec /\ Len(history) < MaxExec)
           /\ history' = x.history
           /\ outcome' = Call("execute", [command |-> cmd], x.result,
                              [dec |-> x.result.value])
           /\ log' = IF x.result.ok THEN Append(log, cmd) ELSE log
    /\ UNCHANGED << promptVars, max_history_size, direct_add, registryVars, calcVars, envVars >>

Handler_add_to_history(cmd) ==
    /\ Len(history) < MaxExec
    /\ history' = AddToHistory(history, max_history_size, cmd)
    /\ direct_add' = TRUE
    /\ outcome' = Call("add_to_history", [command |-> cmd], Returned(None), NoneValue)
    /\ UNCHANGED << promptVars, max_history_size, log, registryVars, calcVars, envVars >>

Handler_clear_history ==
    /\ history' = << >>
    /\ log' = << >>
    /\ direct_add' = FALSE
    /\ outcome' = Call("clear_history", NoArgs, Returned(None), NoneValue)
    /\ UNCHANGED << promptVars, max_history_size, registryVars, calcVars, envVars >>

GetLatestOldest(h) ==
    IF h # << >> THEN [command |-> h[1]] ELSE NoneValue

\* CommandHandler.get_latest: history[-1], or None when the list is empty
GetLatest(h) ==
    IF h # << >> THEN [command |-> h[Len(h)]] ELSE NoneValue

FindByCommandNameFirst(h, name) ==
    LET matching == SelectSeq(h, LAMBDA cmd : CommandName(cmd.class) = name)
    IN  IF matching = << >> THEN << >> ELSE << matching[1] >>

\* CommandHandler.find_by_command_name: the list comprehension over history
FindByCommandName(h, name) ==
    SelectSeq(h, LAMBDA cmd : CommandName(cmd.class) = name)

Handler_get_latest ==
    /\ outcome' = Call("get_latest", NoArgs, Returned(None), GetLatest(history))
    /\ UNCHANGED << promptVars, handlerVars, registryVars, calcVars, envVars >>

Handler_find_by_command_name(name) ==
    /\ outcome' = Call("find_by_command_name", [name |-> name], Returned(None),
                       [found |-> FindByCommandName(history, name)])
    /\ UNCHANGED << promptVars, handlerVars, registryVars, calcVars, envVars >>

NoCall == [call |-> "none", args |-> NoArgs, kind |-> "return", value |-> NoneValue]

----------------------------------------------------------------------------
(* Plugin classes: the descriptors of app/plugins and those the callers of  *)
(* the registry bring along.                                                *)

\* PluginInterface.get_plugin_type of each plugin class
PluginType(cls) ==
    CASE cls \in { "AddPlugin", "SubtractPlugin", "MultiplyPlugin", "DividePlugin" }
            -> "operation"
      [] cls \in { "HistoryPlugin", "LoadHistoryPlugin", "SaveHistoryPlugin",
                   "ClearHistoryPlugin", "DeleteHistoryRecordPlugin" } -> "history"
      [] cls \in { "MockPlugin", "MockPluginB", "ModuloPlugin" } -> "operation"
      [] cls \in { "AnotherMockPlugin", "FormatMockPlugin" } -> "format"

\* PluginInterface.get_name of each plugin class
PluginName(cls) ==
    CASE cls = "AddPlugin" -> "add"
      [] cls = "SubtractPlugin" -> "subtract"
      [] cls = "MultiplyPlugin" -> "multiply"
      [] cls = "DividePlugin" -> "divide"
      [] cls = "HistoryPlugin" -> "history"
      [] cls = "LoadHistoryPlugin" -> "load_history"
      [] cls = "SaveHistoryPlugin" -> "save_history"
      [] cls = "ClearHistoryPlugin" -> "clear_history"
      [] cls = "DeleteHistoryRecordPlugin" -> "delete_history_record"
      [] cls \in { "MockPlugin", "MockPluginB", "FormatMockPlugin" } -> "mock"
      [] cls = "AnotherMockPlugin" -> "another_mock"
      [] cls = "ModuloPlugin" -> "modulo"

\* PluginInterface.get_command_class of each plugin class
PluginCommandClass(cls) ==
    CASE cls = "AddPlugin" -> "AddCommand"
      [] cls = "SubtractPlugin" -> "SubtractCommand"
      [] cls = "MultiplyPlugin" -> "MultiplyCommand"
      [] cls = "DividePlugin" -> "DivideCommand"
      [] cls = "HistoryPlugin" -> "HistoryCommand"
      [] cls = "LoadHistoryPlugin" -> "LoadHistoryCommand"
      [] cls = "SaveHistoryPlugin" -> "SaveHistoryCommand"
      [] cls = "ClearHistoryPlugin" -> "ClearHistoryCommand"
      [] cls = "DeleteHistoryRecordPlugin" -> "DeleteHistoryRecordCommand"
      [] cls \in { "MockPlugin", "AnotherMockPlugin", "FormatMockPlugin" } -> "MockCommand"
      [] cls = "MockPluginB" -> "DivideCommand"
      [] cls = "ModuloPlugin" -> "ModuloCommand"

\* the concrete plugin classes of a module, in the order inspect.getmembers
\* yields them (sorted by class name)
ModuleClasses(module) ==
    CASE module = "app.plugins.operations.add" -> << "AddPlugin" >>
      [] module = "app.plugins.operations.divide" -> << "DividePlugin" >>
      [] module = "app.plugins.operations.multiply" -> << "MultiplyPlugin" >>
      [] module = "app.plugins.operations.subtract" -> << "SubtractPlugin" >>
      [] module = "app.plugins.history.history_plugin"
            -> << "ClearHistoryPlugin", "DeleteHistoryRecordPlugin", "HistoryPlugin",
                  "LoadHistoryPlugin", "SaveHistoryPlugin" >>
      [] module = "mock_module" -> << "MockPlugin" >>
      [] module = "mock_module_2" -> << "AnotherMockPlugin", "MockPlugin" >>
      [] module = "mock_module_3" -> << "FormatMockPlugin", "MockPluginB" >>
      [] module = "mock_package.mock_module" -> << "MockPlugin" >>
      [] module = "plugins.operations.modulo" -> << "ModuloPlugin" >>
      [] OTHER -> << >>

\* the modules a caller hands to _register_plugins_from_module
CallerModules == { "mock_module", "mock_module_2", "mock_module_3" }

\* pkgutil.iter_modules of a package: << name, is_pkg >> in name order
PackageContents(package) ==
    CASE package = "app.plugins"
            -> << << "app.plugins.history", TRUE >>,
                  << "app.plugins.operations", TRUE >>,
                  << "app.plugins.plugin_interface", FALSE >>,
                  << "app.plugins.plugin_manager", FALSE >> >>
      [] package = "app.plugins.history"
            -> << << "app.plugins.history.history_plugin", FALSE >> >>
      [] package = "app.plugins.operations"
            -> << << "app.plugins.operations.add", FALSE >>,
                  << "app.plugins.operations.divide", FALSE >>,
                  << "app.plugins.operations.multiply", FALSE >>,
                  << "app.plugins.operations.subtract", FALSE >> >>
      [] package = "mock_package"
            -> << << "mock_package.mock_module", FALSE >> >>
      [] package = "plugins.operations"
            -> << << "plugins.operations.modulo", FALSE >> >>
      [] OTHER -> << >>

Packages ==
    { "app.plugins", "app.plugins.history", "app.plugins.operations", "mock_package",
      "plugins.operations" }

\* what importlib.import_module(name) does in the environment imp:
\* "ok", "ImportError" or "Error" (any other exception)
ImportStatus(imp, name) == IF name \in DOMAIN imp THEN imp[name] ELSE "ImportError"

----------------------------------------------------------------------------
(* PluginManager (app/plugins/plugin_manager.py).  A registry is            *)
(* [plugins, type_order]: the dict of dicts and the order of its keys.       *)

EmptyDict == << >>

RegisterKeepFirst(reg, cls) ==
    LET t == PluginType(cls)
        n == PluginName(cls)
        isNew == t \notin DOMAIN reg.plugins
        p1 == IF isNew THEN (t :> EmptyDict) @@ reg.plugins ELSE reg.plugins
    IN  [plugins |-> [p1 EXCEPT ![t] = p1[t] @@ (n :> cls)],
         type_order |-> IF isNew THEN Append(reg.type_order, t) ELSE reg.type_order]

\* a registration that starts the category's dict afresh
RegisterFreshCategory(reg, cls) ==
    LET t == PluginType(cls)
        n == PluginName(cls)
        isNew == t \notin DOMAIN reg.plugins
        p1 == IF isNew THEN (t :> EmptyDict) @@ reg.plugins ELSE reg.plugins
    IN  [plugins |-> [p1 EXCEPT ![t] = (n :> cls)],
         type_order |-> IF isNew THEN Append(reg.type_order, t) ELSE reg.type_order]

\* the body of the loop of _register_plugins_from_module for one class
Register(reg, cls) ==
    LET t == PluginType(cls)
        n == PluginName(cls)
        isNew == t \notin DOMAIN reg.plugins
        p1 == IF isNew THEN (t :> EmptyDict) @@ reg.plugins ELSE reg.plugins
    IN  [plugins |-> [p1 EXCEPT ![t] = (n :> cls) @@ p1[t]],
         type_order |-> IF isNew THEN Append(reg.type_order, t) ELSE reg.type_order]

RECURSIVE RegisterAll(_, _)
\* _register_plugins_from_module over the classes of a module, in order
RegisterAll(reg, classes) ==
    IF classes = << >> THEN reg
    ELSE RegisterAll(Register(reg, Head(classes)), Tail(classes))

RECURSIVE DiscoverItems(_, _, _)
RECURSIVE Discover(_, _)

\* a discovery that lets the ImportError of the namespace itself escape
DiscoverUncaught(imp, package_name) ==
    CASE ImportStatus(imp, package_name) = "ImportError"
            -> [classes |-> << >>, result |-> Raised("ImportError", package_name)]
      [] ImportStatus(imp, package_name) = "Error"
            -> [classes |-> << >>, result |-> Raised("Exception", package_name)]
      [] OTHER ->
            IF package_name \notin Packages
            THEN [classes |-> << >>, result |-> Raised("AttributeError", "__path__")]
            ELSE DiscoverItems(imp, PackageContents(package_name), << >>)

\* PluginManager.discover_plugins(package_name) in the environment imp: the
\* plugin classes it registers, in order, and how the call ends.  Only
\* ImportError is caught; any other error leaves the call at once.
Discover(imp, package_name) ==
    CASE ImportStatus(imp, package_name) = "ImportError"
            -> [classes |-> << >>, result |-> Returned(None)]
      [] ImportStatus(imp, package_name) = "Error"
            -> [classes |-> << >>, result |-> Raised("Exception", package_name)]
      [] OTHER ->
            IF package_name \notin Packages
            THEN [classes |-> << >>, result |-> Raised("AttributeError", "__path__")]
            ELSE DiscoverItems(imp, PackageContents(package_name), << >>)

\* the for loop of discover_plugins over the remaining items of a package
DiscoverItems(imp, items, found) ==
    IF items = << >> THEN [classes |-> found, result |-> Returned(None)]
    ELSE LET name == Head(items)[1]
             is_pkg == Head(items)[2]
         IN  IF is_pkg
             THEN LET sub == Discover(imp, name)
                  IN  IF sub.result.ok
                      THEN DiscoverItems(imp, Tail(items), found \o sub.classes)
                      ELSE [classes |-> found \o sub.classes, result |-> sub.result]
             ELSE CASE ImportStatus(imp, name) = "ok"
                        -> DiscoverItems(imp, Tail(items), found \o ModuleClasses(name))
                    [] ImportStatus(imp, name) = "ImportError"
                        -> DiscoverItems(imp, Tail(items), found)
                    [] OTHER
                        -> [classes |-> found, result |-> Raised("Exception", name)]

\* a lookup that falls back to the "operation" category for an unknown one
GetPluginsDefaultOperation(reg, plugin_type) ==
    IF plugin_type \in DOMAIN reg.plugins THEN reg.plugins[plugin_type]
    ELSE IF "operation" \in DOMAIN reg.plugins THEN reg.plugins["operation"]
    ELSE EmptyDict

\* PluginManager.get_plugins(plugin_type) for a plugin_type that is not None
GetPlugins(reg, plugin_type) ==
    IF plugin_type \in DOMAIN reg.plugins THEN reg.plugins[plugin_type] ELSE EmptyDict

\* PluginManager.get_plugin(plugin_type, plugin_name)
GetPlugin(reg, plugin_type, plugin_name) ==
    LET d == GetPlugins(reg, plugin_type)
    IN  IF plugin_name \in DOMAIN d THEN d[plugin_name] ELSE None

RECURSIVE UpdateAllKeepFirst(_, _, _)
\* a flattening in which the first category holding a name keeps it
UpdateAllKeepFirst(reg, order, result) ==
    IF order = << >> THEN result
    ELSE UpdateAllKeepFirst(reg, Tail(order), result @@ reg.plugins[Head(order)])

RECURSIVE UpdateAll(_, _, _)
\* the loop of get_plugins(None): result.update(type_dict) for each
\* category, in the order of the keys of _plugins
UpdateAll(reg, order, result) ==
    IF order = << >> THEN result
    ELSE UpdateAll(reg, Tail(order), reg.plugins[Head(order)] @@ result)

\* PluginManager.get_plugins(None)
GetAllPlugins(reg) == UpdateAll(reg, reg.type_order, EmptyDict)

Registry == [plugins |-> plugins, type_order |-> type_order]

RECURSIVE LastRegistered(_, _)
\* reg_log after the classes were registered: for each (category, name)
\* the class registered last under it
LastRegistered(last, classes) ==
    IF classes = << >> THEN last
    ELSE LastRegistered(
            (<< PluginType(Head(classes)), PluginName(Head(classes)) >> :> Head(classes))
                @@ last,
            Tail(classes))

----------------------------------------------------------------------------
(* DataFrames and CSV files.  A DataFrame with the columns timestamp,        *)
(* operation, a, b, result and a RangeIndex is the sequence of its rows; a   *)
(* file is [exists, lines], the lines being the rows as CSV text.            *)

\* config.CSV_HISTORY_FILE with the default DATA_DIRECTORY and name
CSV_HISTORY_FILE == "data/calculator_history.csv"

\* a history_file a caller passes to Calculator
OtherFile == "tmp/test_history.csv"

Paths == { CSV_HISTORY_FILE, OtherFile }

\* the text to_csv writes for a double, and the double read_csv parses
FloatText(f) == [text |-> f.float]
ParseFloat(t) == [float |-> t.text]

Row(timestamp, operation, a, b, result) ==
    [timestamp |-> timestamp, operation |-> operation, a |-> a, b |-> b,
     result |-> result]

EmptyDataFrame == << >>

\* DataFrame.to_csv(path, index=False): the lines written
ToCsv(df) ==
    [i \in 1 .. Len(df) |->
        Row(df[i].timestamp, df[i].operation, FloatText(df[i].a),
            FloatText(df[i].b), FloatText(df[i].result))]

\* pd.read_csv(path): the DataFrame read
ReadCsv(lines) ==
    [i \in 1 .. Len(lines) |->
        Row(lines[i].timestamp, lines[i].operation, ParseFloat(lines[i].a),
            ParseFloat(lines[i].b), ParseFloat(lines[i].result))]

AbsentFile == [exists |-> FALSE, lines |-> << >>]
FileWith(df) == [exists |-> TRUE, lines |-> ToCsv(df)]

\* DataFrame.drop(label) followed by reset_index(drop=True): the labels of
\* a RangeIndex are 0 .. len-1 and any other label is a KeyError
DfDrop(df, label) ==
    IF label \in 0 .. (Len(df) - 1)
    THEN Returned(SubSeq(df, 1, label) \o SubSeq(df, label + 2, Len(df)))
    ELSE Raised("KeyError", "not found in axis")

----------------------------------------------------------------------------
(* History commands (app/plugins/history/history_plugin.py).                *)

\* HistoryCommand.__init__(a, b, **kwargs): self.kwargs is the dict of the
\* keyword arguments of the call other than a and b
HistoryCommandInit(keywords) == keywords

\* LoadHistoryCommand.execute
LoadHistoryExecute(kwargs, fs) ==
    LET file_path == IF "file_path" \in DOMAIN kwargs THEN kwargs.file_path
                     ELSE CSV_HISTORY_FILE
    IN  IF ~fs[file_path].exists
        THEN [files |-> fs, result |-> Returned(EmptyDataFrame)]
        ELSE [files |-> fs, result |-> Returned(ReadCsv(fs[file_path].lines))]

\* SaveHistoryCommand.execute: kwargs.get('history_data') is None when the
\* key is missing
SaveHistoryExecute(kwargs, fs) ==
    LET file_path == IF "file_path" \in DOMAIN kwargs THEN kwargs.file_path
                     ELSE CSV_HISTORY_FILE
    IN  IF "history_data" \notin DOMAIN kwargs
        THEN [files |-> fs,
              result |-> Raised("ValueError", "History data must be a pandas DataFrame")]
        ELSE [files |-> [fs EXCEPT ![file_path] = FileWith(kwargs.history_data)],
              result |-> Returned(TRUE)]

\* ClearHistoryCommand.execute
ClearHistoryExecute(kwargs, fs) ==
    [files |-> fs, result |-> Returned(EmptyDataFrame)]

\* DeleteHistoryRecordCommand.execute
DeleteHistoryRecordExecute(kwargs, fs) ==
    IF "history_data" \notin DOMAIN kwargs
    THEN [files |-> fs,
          result |-> Raised("ValueError", "History data must be a pandas DataFrame")]
    ELSE IF "index" \notin DOMAIN kwargs
    THEN [files |-> fs,
          result |-> Raised("ValueError", "Index must be provided for deletion")]
    ELSE IF kwargs.index < 0 \/ kwargs.index >= Len(kwargs.history_data)
    THEN [files |-> fs, result |-> Raised("ValueError", "Index out of range")]
    ELSE [files |-> fs, result |-> DfDrop(kwargs.history_data, kwargs.index)]

\* command.execute() of an instance of a history command class
HistoryCommandExecute(command_class, kwargs, fs) ==
    CASE command_class = "LoadHistoryCommand" -> LoadHistoryExecute(kwargs, fs)
      [] command_class = "SaveHistoryCommand" -> SaveHistoryExecute(kwargs, fs)
      [] command_class = "ClearHistoryCommand" -> ClearHistoryExecute(kwargs, fs)
      [] command_class = "DeleteHistoryRecordCommand"
            -> DeleteHistoryRecordExecute(kwargs, fs)

----------------------------------------------------------------------------
(* Calculator (app/calculator.py).                                          *)

\* Calculator._load_history: the call passes one keyword, kwargs
LoadHistory(reg, hf, fs) ==
    LET load_plugin == GetPlugin(reg, "history", "load_history")
    IN  IF load_plugin = None THEN EmptyDataFrame
        ELSE LET kw == HistoryCommandInit([kwargs |-> [file_path |-> hf]])
                 x == HistoryCommandExecute(PluginCommandClass(load_plugin), kw, fs)
             IN  IF x.result.ok THEN x.result.value ELSE EmptyDataFrame

\* Calculator._save_history: the files after the call; an error of the
\* command is logged and swallowed
SaveHistory(reg, hf, hd, fs) ==
    LET save_plugin == GetPlugin(reg, "history", "save_history")
    IN  IF save_plugin = None THEN fs
        ELSE LET kw == HistoryCommandInit(
                            [kwargs |-> [file_path |-> hf, history_data |-> hd]])
                 x == HistoryCommandExecute(PluginCommandClass(save_plugin), kw, fs)
             IN  x.files

NewRecordFirst(hd, timestamp, operation, a, b, result) ==
    << Row(timestamp, operation, ToFloat(a), ToFloat(b), ToFloat(result)) >> \o hd

\* Calculator._add_to_history up to the save: the DataFrame with the new
\* record concatenated
NewRecord(hd, timestamp, operation, a, b, result) ==
    Append(hd, Row(timestamp, operation, ToFloat(a), ToFloat(b), ToFloat(result)))

\* Calculator._create_operation_method: what the closure captures
OperationMethod(plugin_class) ==
    [command_class |-> PluginCommandClass(plugin_class),
     operation_name |-> PluginName(plugin_class)]

\* a method creation that does nothing once the cache holds a callable
CreateOperationMethodsOnce(cache, ops) ==
    IF cache # EmptyDict THEN cache
    ELSE [n \in DOMAIN ops |-> OperationMethod(ops[n])]

\* a method creation that keeps only the callables it has just created
CreateOperationMethodsOnlyNew(cache, ops) ==
    [n \in (DOMAIN ops) \ (DOMAIN cache) |-> OperationMethod(ops[n])]

\* Calculator._create_operation_methods: the method cache afterwards
CreateOperationMethods(cache, ops) ==
    [n \in (DOMAIN cache) \cup (DOMAIN ops) |->
        IF n \in DOMAIN cache THEN cache[n] ELSE OperationMethod(ops[n])]

\* self._operations = get_plugins("operation"): the registry's own dict of
\* the category when it has one (an alias), else a fresh empty dict
GetOperations(reg) == [alias |-> "operation" \in DOMAIN reg.plugins]

\* the entries of Calculator._operations
OperationsDict(reg, ops) == IF ops.alias THEN reg.plugins["operation"] ELSE EmptyDict

\* a callable that runs the unit itself, without the CommandHandler
CallOperationNoDispatcher(reg, h, m, hf, hd, fs, method, timestamp, a, b) ==
    LET r == CommandExecute(Command(method.command_class, a, b))
    IN  IF ~r.ok
        THEN [history |-> h, history_data |-> hd, files |-> fs, result |-> r]
        ELSE LET hd1 == NewRecord(hd, timestamp, method.operation_name, a, b, r.value)
             IN  [history |-> h, history_data |-> hd1,
                  files |-> SaveHistory(reg, hf, hd1, fs), result |-> r]

\* an operation call that lets the error of the save step reach the caller
CallOperationSaveRaises(reg, h, m, hf, hd, fs, method, timestamp, a, b) ==
    LET x == HandlerExecute(h, m, Command(method.command_class, a, b))
    IN  IF ~x.result.ok
        THEN [history |-> x.history, history_data |-> hd, files |-> fs,
              result |-> x.result]
        ELSE LET hd1 == NewRecord(hd, timestamp, method.operation_name, a, b,
                                  x.result.value)
                 save_plugin == GetPlugin(reg, "history", "save_history")
             IN  IF save_plugin = None
                 THEN [history |-> x.history, history_data |-> hd1, files |-> fs,
                       result |-> x.result]
                 ELSE LET s == HistoryCommandExecute(
                                   PluginCommandClass(save_plugin),
                                   HistoryCommandInit(
                                       [kwargs |-> [file_path |-> hf,
                                                    history_data |-> hd1]]),
                                   fs)
                      IN  [history |-> x.history, history_data |-> hd1,
                           files |-> s.files,
                           result |-> IF s.result.ok THEN x.result ELSE s.result]

\* the facade callable: operation_method(a, b) of a closure
CallOperation(reg, h, m, hf, hd, fs, method, timestamp, a, b) ==
    LET x == HandlerExecute(h, m, Command(method.command_class, a, b))
    IN  IF ~x.result.ok
        THEN [history |-> x.history, history_data |-> hd, files |-> fs,
              result |-> x.result]
        ELSE LET hd1 == NewRecord(hd, timestamp, method.operation_name, a, b,
                                  x.result.value)
             IN  [history |-> x.history, history_data |-> hd1,
                  files |-> SaveHistory(reg, hf, hd1, fs), result |-> x.result]

\* a clear_history whose fallback path only logs the missing plugin
ClearHistoryNoFallback(reg, hf, hd, fs) ==
    LET clear_plugin == GetPlugin(reg, "history", "clear_history")
    IN  IF clear_plugin = None
        THEN [history_data |-> hd, files |-> fs, result |-> Returned(None)]
        ELSE [history_data |-> EmptyDataFrame,
              files |-> SaveHistory(reg, hf, EmptyDataFrame, fs),
              result |-> Returned(None)]

\* Calculator.clear_history
ClearHistory(reg, hf, hd, fs) ==
    LET clear_plugin == GetPlugin(reg, "history", "clear_history")
    IN  IF clear_plugin = None
        THEN [history_data |-> EmptyDataFrame,
              files |-> SaveHistory(reg, hf, EmptyDataFrame, fs),
              result |-> Returned(None)]
        ELSE LET x == HistoryCommandExecute(PluginCommandClass(clear_plugin),
                                            HistoryCommandInit(<< >>), fs)
             IN  IF x.result.ok
                 THEN [history_data |-> x.result.value,
                       files |-> SaveHistory(reg, hf, x.result.value, fs),
                       result |-> Returned(None)]
                 ELSE [history_data |-> hd, files |-> fs, result |-> Returned(None)]

\* Calculator.delete_history_record past its range check: the plugin's
\* command when the registry has one, else drop(index) on the frame
DeleteHistoryRecordInRange(reg, hf, hd, fs, index) ==
    LET delete_plugin == GetPlugin(reg, "history", "delete_history_record")
    IN  IF delete_plugin = None
        THEN LET d == DfDrop(hd, index)
             IN  IF d.ok
                 THEN [history_data |-> d.value,
                       files |-> SaveHistory(reg, hf, d.value, fs),
                       result |-> Returned(None)]
                 ELSE [history_data |-> hd, files |-> fs, result |-> d]
        ELSE LET kw == HistoryCommandInit(
                           [kwargs |-> [history_data |-> hd, index |-> index]])
                 x == HistoryCommandExecute(PluginCommandClass(delete_plugin),
                                            kw, fs)
             IN  IF x.result.ok
                 THEN [history_data |-> x.result.value,
                       files |-> SaveHistory(reg, hf, x.result.value, fs),
                       result |-> Returned(None)]
                 ELSE [history_data |-> hd, files |-> fs, result |-> x.result]

\* a range check that lets index = len(history) through
DeleteHistoryRecordOffByOne(reg, hf, hd, fs, index) ==
    IF index < 0 \/ index > Len(hd)
    THEN [history_data |-> hd, files |-> fs,
          result |-> Raised("ValueError", "Index out of range")]
    ELSE DeleteHistoryRecordInRange(reg, hf, hd, fs, index)

\* Calculator.delete_history_record
DeleteHistoryRecord(reg, hf, hd, fs, index) ==
    IF index < 0 \/ index >= Len(hd)
    THEN [history_data |-> hd, files |-> fs,
          result |-> Raised("ValueError", "Index out of range")]
    ELSE DeleteHistoryRecordInRange(reg, hf, hd, fs, index)

\* the two discover_plugins calls of Calculator.__init__ and of
\* reload_plugins: the registry afterwards and how the calls end
DiscoverOperationsAndHistory(imp, reg) ==
    LET d1 == Discover(imp, "app.plugins.operations")
        d2 == Discover(imp, "app.plugins.history")
    IN  IF ~d1.result.ok
        THEN [classes |-> d1.classes, result |-> d1.result]
        ELSE [classes |-> d1.classes \o d2.classes, result |-> d2.result]

----------------------------------------------------------------------------
(* The actions: one per call on the Calculator, on the shared registry or   *)
(* on the CommandHandler.                                                   *)

\* the system clock read by _add_to_history
Timestamps == { "2025-03-18 10:00:00" }

\* the count of the run of successful calls after a facade call that found
\* the records hd: a run starts on an empty record history
RunAfterCall(run, hd, ok) ==
    IF ~ok THEN run
    ELSE IF hd = EmptyDataFrame THEN 1
    ELSE IF run >= 0 THEN run + 1 ELSE -1

\* the count after clear_history or delete_history_record turned the
\* records hd into hd1: a removal ends the run
RunAfterRemoval(run, hd, hd1) ==
    IF hd1 = EmptyDataFrame THEN 0 ELSE IF hd1 = hd THEN run ELSE -1

\* Calculator(history_file=arg)
Calculator_init(arg) ==
    /\ ~constructed
    /\ LET hf == IF arg = None THEN CSV_HISTORY_FILE ELSE arg
           fs1 == IF files[hf].exists THEN files
                  ELSE [files EXCEPT ![hf] = FileWith(EmptyDataFrame)]
           d == DiscoverOperationsAndHistory(importable, Registry)
           reg1 == RegisterAll(Registry, d.classes)
       IN  /\ files' = fs1
           /\ plugins' = reg1.plugins
           /\ type_order' = reg1.type_order
           /\ reg_log' = LastRegistered(reg_log, d.classes)
           /\ outcome' = Call("Calculator", [history_file |-> arg], d.result, NoneValue)
           /\ IF d.result.ok
              THEN /\ constructed' = TRUE
                   /\ history_file' = hf
                   /\ operations' = GetOperations(reg1)
                   /\ history_data' = LoadHistory(reg1, hf, fs1)
                   /\ method_cache' =
                        CreateOperationMethods(EmptyDict,
                                               OperationsDict(reg1, GetOperations(reg1)))
                   /\ initial_methods' =
                        DOMAIN CreateOperationMethods(
                                   EmptyDict, OperationsDict(reg1, GetOperations(reg1)))
                   /\ record_run' =
                        IF LoadHistory(reg1, hf, fs1) = EmptyDataFrame THEN 0 ELSE -1
              ELSE UNCHANGED calcVars
    /\ UNCHANGED << promptVars, handlerVars, importable >>

\* calc.<name>(a, b), a callable the Calculator exposes
Calculator_operation(name, a, b) ==
    /\ constructed
    /\ name \in DOMAIN method_cache
    /\ \E timestamp \in Timestamps :
        LET x == CallOperation(Registry, history, max_history_size, history_file,
                               history_data, files, method_cache[name], timestamp, a, b)
        IN  /\ x.result.ok => (Len(history_data) < MaxRecords /\ Len(history) < MaxExec)
            /\ history' = x.history
            /\ history_data' = x.history_data
            /\ files' = x.files
            /\ outcome' = Call(name, [a |-> a, b |-> b], x.result,
                               [dec |-> x.result.value])
            /\ record_run' = RunAfterCall(record_run, history_data, x.result.ok)
    /\ UNCHANGED << promptVars, max_history_size, log, direct_add, registryVars, importable,
                    constructed, history_file, operations, method_cache,
                    initial_methods >>

\* a clear_history that also empties the dispatcher's history
Calculator_clear_history_and_dispatcher ==
    /\ constructed
    /\ LET x == ClearHistory(Registry, history_file, history_data, files)
       IN  /\ history_data' = x.history_data
           /\ files' = x.files
           /\ outcome' = Call("clear_history", NoArgs, x.result, NoneValue)
           /\ record_run' = RunAfterRemoval(record_run, history_data, x.history_data)
    /\ history' = << >>
    /\ UNCHANGED << promptVars, max_history_size, log, direct_add, registryVars, importable,
                    constructed, history_file, operations, method_cache,
                    initial_methods >>

\* Calculator.clear_history()
Calculator_clear_history ==
    /\ constructed
    /\ LET x == ClearHistory(Registry, history_file, history_data, files)
       IN  /\ history_data' = x.history_data
           /\ files' = x.files
           /\ outcome' = Call("clear_history", NoArgs, x.result, NoneValue)
           /\ record_run' = RunAfterRemoval(record_run, history_data, x.history_data)
    /\ UNCHANGED << promptVars, handlerVars, registryVars, importable, constructed, history_file,
                    operations, method_cache, initial_methods >>

\* Calculator.delete_history_record(index)
Calculator_delete_history_record(index) ==
    /\ constructed
    /\ LET x == DeleteHistoryRecord(Registry, history_file, history_data, files, index)
       IN  /\ history_data' = x.history_data
           /\ files' = x.files
           /\ outcome' = Call("delete_history_record", [index |-> index], x.result,
                              NoneValue)
           /\ record_run' = RunAfterRemoval(record_run, history_data, x.history_data)
    /\ UNCHANGED << promptVars, handlerVars, registryVars, importable, constructed, history_file,
                    operations, method_cache, initial_methods >>

\* get_pandas_history's Optional[int] argument
NoLimit == [none |-> TRUE]
Limit(k) == [int |-> k]

\* a limit that keeps the oldest records
GetPandasHistoryOldest(hd, limit) ==
    IF limit = NoLimit \/ limit.int >= Len(hd) THEN hd
    ELSE SubSeq(hd, 1, IF limit.int < 0 THEN 0 ELSE limit.int)

\* Calculator.get_pandas_history: the frame returned (a copy; iloc[start:]
\* slices by position as a list does)
GetPandasHistory(hd, limit) ==
    IF limit = NoLimit \/ limit.int >= Len(hd) THEN hd
    ELSE LET d == Len(hd) - limit.int
             start_idx == IF d > 0 THEN d ELSE 0
         IN  PySliceFrom(hd, start_idx)

\* Calculator.get_pandas_history(limit)
Calculator_get_pandas_history(limit) ==
    /\ constructed
    /\ outcome' = Call("get_pandas_history", [limit |-> limit], Returned(None),
                       [frame |-> GetPandasHistory(history_data, limit)])
    /\ UNCHANGED << promptVars, handlerVars, registryVars, calcVars, envVars >>

\* Calculator.reload_plugins()
Calculator_reload_plugins ==
    /\ constructed
    /\ LET d == DiscoverOperationsAndHistory(importable, Registry)
           reg1 == RegisterAll(Registry, d.classes)
       IN  /\ plugins' = reg1.plugins
           /\ type_order' = reg1.type_order
           /\ reg_log' = LastRegistered(reg_log, d.classes)
           /\ outcome' = Call("reload_plugins", NoArgs, d.result, NoneValue)
           /\ IF d.result.ok
              THEN /\ operations' = GetOperations(reg1)
                   /\ method_cache' =
                        CreateOperationMethods(method_cache,
                                               OperationsDict(reg1, GetOperations(reg1)))
              ELSE UNCHANGED << operations, method_cache >>
    /\ UNCHANGED << promptVars, handlerVars, envVars, constructed, history_file, history_data,
                    initial_methods, record_run >>

\* get_plugin_manager().discover_plugins(package_name), by any caller
Registry_discover_plugins(package_name) ==
    /\ LET d == Discover(importable, package_name)
           reg1 == RegisterAll(Registry, d.classes)
       IN  /\ plugins' = reg1.plugins
           /\ type_order' = reg1.type_order
           /\ reg_log' = LastRegistered(reg_log, d.classes)
           /\ outcome' = Call("discover_plugins", [package_name |-> package_name],
                              d.result, NoneValue)
    /\ UNCHANGED << promptVars, handlerVars, envVars, calcVars >>

\* get_plugin_manager()._register_plugins_from_module(module), by any caller
Registry_register_plugins_from_module(module) ==
    /\ LET reg1 == RegisterAll(Registry, ModuleClasses(module))
       IN  /\ plugins' = reg1.plugins
           /\ type_order' = reg1.type_order
           /\ reg_log' = LastRegistered(reg_log, ModuleClasses(module))
           /\ outcome' = Call("_register_plugins_from_module", [module |-> module],
                              Returned(None), NoneValue)
    /\ UNCHANGED << promptVars, handlerVars, envVars, calcVars >>

\* get_plugin_manager().get_plugin(plugin_type, plugin_name)
Registry_get_plugin(plugin_type, plugin_name) ==
    /\ outcome' = Call("get_plugin",
                       [plugin_type |-> plugin_type, plugin_name |-> plugin_name],
                       Returned(None),
                       [plugin |-> GetPlugin(Registry, plugin_type, plugin_name)])
    /\ UNCHANGED << promptVars, handlerVars, registryVars, envVars, calcVars >>

\* get_plugin_manager().get_plugins(plugin_type), plugin_type None included
Registry_get_plugins(plugin_type) ==
    /\ outcome' = Call("get_plugins", [plugin_type |-> plugin_type], Returned(None),
                       [dict |-> IF plugin_type = None THEN GetAllPlugins(Registry)
                                 ELSE GetPlugins(Registry, plugin_type)])
    /\ UNCHANGED << promptVars, handlerVars, registryVars, envVars, calcVars >>

----------------------------------------------------------------------------
(* The environments a run starts in.                                        *)

RepoModules ==
    { "app.plugins", "app.plugins.history", "app.plugins.operations",
      "app.plugins.plugin_interface", "app.plugins.plugin_manager",
      "app.plugins.history.history_plugin", "app.plugins.operations.add",
      "app.plugins.operations.divide", "app.plugins.operations.multiply",
      "app.plugins.operations.subtract" }

\* every module of the repository imports
AllImportable == [n \in RepoModules |-> "ok"]

\* the history plugin module fails to import (and so does its package,
\* whose __init__ imports it)
HistoryNotImportable ==
    [n \in RepoModules |->
        IF n \in { "app.plugins.history", "app.plugins.history.history_plugin" }
        THEN "ImportError" ELSE "ok"]

StoredRow(operation) == Row("2025-03-18 09:00:00", operation, ToFloat(One), ToFloat(One),
                            ToFloat(One))

\* what the two history files hold before the Calculator is constructed
FileScenarios ==
    { [p \in Paths |-> AbsentFile],
      [p \in Paths |-> IF p = OtherFile THEN FileWith(<< StoredRow("multiply") >>)
                       ELSE AbsentFile],
      [p \in Paths |-> IF p = OtherFile THEN FileWith(<< StoredRow("multiply") >>)
                       ELSE FileWith(<< StoredRow("divide") >>)] }

NoCalculator ==
    /\ constructed = FALSE
    /\ history_file = None
    /\ operations = [alias |-> FALSE]
    /\ history_data = EmptyDataFrame
    /\ method_cache = EmptyDict
    /\ initial_methods = { }
    /\ record_run = 0

\* no prompt loop runs and nothing is left to read
NoPrompt ==
    /\ stdin = << >>
    /\ loops = << >>
    /\ printed = ""
    /\ pending = << >>

EmptyRegistry ==
    /\ plugins = EmptyDict
    /\ type_order = << >>
    /\ reg_log = EmptyDict

\* a process in which no Calculator exists yet and the registry is empty,
\* with max_history_size read from the configuration
InitProcess(sizes, environments, disks) ==
    /\ NoPrompt
    /\ history = << >>
    /\ max_history_size \in sizes
    /\ log = << >>
    /\ direct_add = FALSE
    /\ outcome = NoCall
    /\ EmptyRegistry
    /\ NoCalculator
    /\ importable \in environments
    /\ files \in disks

\* the calls made on the facade: every operation, zero and non-zero
\* operands, divisions that fail and that succeed
FacadeCalls ==
    { << "add", One, One >>, << "subtract", One, Zero >>, << "multiply", Zero, One >>,
      << "divide", One, One >>, << "divide", One, Zero >>, << "divide", Zero, Zero >> }

Init ==
    InitProcess({ 1, MaxM }, { AllImportable, HistoryNotImportable },
                { [p \in Paths |-> AbsentFile] })

\* the limits get_pandas_history is called with
Limits == { NoLimit } \cup { Limit(k) : k \in 0 .. MaxRecords + 1 }

Next ==
    \/ \E arg \in { None, OtherFile } : Calculator_init(arg)
    \/ \E c \in FacadeCalls : Calculator_operation(c[1], c[2], c[3])
    \/ Calculator_clear_history
    \/ \E index \in -1 .. MaxRecords : Calculator_delete_history_record(index)
    \/ Calculator_reload_plugins
    \/ \E limit \in Limits : Calculator_get_pandas_history(limit)

Spec == Init /\ [][Next]_vars

\* the same calls on disks that already hold history files
InitFiles == InitProcess({ MaxM }, { AllImportable }, FileScenarios)

SpecFiles == InitFiles /\ [][Next]_vars

\* a CommandHandler on its own, constructed with some max_history_size
InitHandler ==
    InitProcess(0 .. MaxM, { AllImportable }, { [p \in Paths |-> AbsentFile] })

\* the names find_by_command_name is asked for
SearchedNames == { "add", "divide", "subtract" }

NextHandler ==
    \/ \E cmd \in HandlerUnits : Handler_execute(cmd)
    \/ \E cmd \in HandlerUnits : Handler_add_to_history(cmd)
    \/ Handler_clear_history
    \/ Handler_get_latest
    \/ \E name \in SearchedNames : Handler_find_by_command_name(name)

SpecHandler == InitHandler /\ [][NextHandler]_vars

----------------------------------------------------------------------------
(* Properties of the CommandHandler, checked under SpecHandler.             *)

Min(a, b) == IF a < b THEN a ELSE b

\* the last k elements of s
LastN(s, k) == SubSeq(s, Len(s) - k + 1, Len(s))

\* C1: in every reachable state of a CommandHandler the length of its
\* history is at most the max_history_size it was constructed with, for
\* every non-negative maximum.
C1_HistoryWithinMax == Len(history) <= max_history_size

\* C2: with max_history_size M >= 1, after any sequence of execute and
\* clear_history calls the history is exactly the last min(N, M) units
\* executed successfully since the most recent clear, in execution order.
C2_HistoryIsLastExecuted ==
    (max_history_size >= 1 /\ ~direct_add)
        => history = LastN(log, Min(Len(log), max_history_size))

\* more units were executed than fit, and the oldest survivor is the
\* (N - M + 1)-th executed unit, which differs from the first
C2_Witness ==
    /\ max_history_size >= 1
    /\ ~direct_add
    /\ Len(log) > max_history_size
    /\ history[1] = log[Len(log) - max_history_size + 1]
    /\ history[1] # log[1]

\* C3: when execute is called with a unit whose computation raises, the
\* unit's own error reaches the caller and the history is exactly what it
\* was before the call.
C3_FailedExecuteKeepsHistory ==
    [][ (outcome'.call = "execute" /\ ~CommandExecute(outcome'.args.command).ok)
            => /\ history' = history
               /\ outcome'.kind = "raise"
               /\ outcome'.value = CommandExecute(outcome'.args.command).value ]_vars

\* a failing execute was made on a handler whose history is not empty
C3_Witness ==
    /\ outcome.call = "execute"
    /\ outcome.kind = "raise"
    /\ outcome.value.type = "ValueError"
    /\ Len(history) > 0

----------------------------------------------------------------------------
(* The registry on its own.                                                 *)

\* the test package mock_package is importable as well
MockPackageImportable ==
    [n \in RepoModules \cup { "mock_package", "mock_package.mock_module" } |-> "ok"]

\* the namespaces handed to discover_plugins: packages, a namespace that
\* does not resolve, and one that resolves to a module
Namespaces ==
    Packages \cup { "calculator.plugins.operations", "app.plugins.operations.add" }

Categories == { "operation", "history", "format", "nonexistent" }
Names == { "add", "mock", "another_mock", "load_history", "nonexistent" }

\* importing the module divide raises an error that is not an ImportError
BrokenModuleImportable ==
    [n \in RepoModules |-> IF n = "app.plugins.operations.divide" THEN "Error" ELSE "ok"]

InitRegistry ==
    InitProcess({ MaxM },
                { AllImportable, HistoryNotImportable, MockPackageImportable,
                  BrokenModuleImportable },
                { [p \in Paths |-> AbsentFile] })

NextRegistry ==
    \/ \E package_name \in Namespaces : Registry_discover_plugins(package_name)
    \/ \E module \in CallerModules : Registry_register_plugins_from_module(module)
    \/ \E t \in Categories, n \in Names : Registry_get_plugin(t, n)
    \/ \E t \in Categories \cup { None } : Registry_get_plugins(t)

SpecRegistry == InitRegistry /\ [][NextRegistry]_vars

----------------------------------------------------------------------------
(* Properties of the Calculator, checked under Spec.                        *)

OperationNames == { "add", "subtract", "multiply", "divide" }

\* C4: the facade's divide(a, 0) raises a ValueError for every a and
\* leaves the command history of the dispatcher and the record history of
\* the Calculator unchanged.
C4_DivideByZeroRaises ==
    [][ (outcome'.call = "divide" /\ DecIsZero(outcome'.args.b))
            => /\ outcome'.kind = "raise"
               /\ outcome'.value.type = "ValueError"
               /\ history' = history
               /\ history_data' = history_data ]_vars

\* divide(a, 0) was called on a Calculator both of whose histories hold
\* something
C4_Witness ==
    /\ outcome.call = "divide"
    /\ DecIsZero(outcome.args.b)
    /\ outcome.kind = "raise"
    /\ Len(history) > 0
    /\ Len(history_data) > 0

\* C5: every successful call of a facade operation appends exactly one
\* record (operation name, a, b, result, the numbers as floats) at the end
\* of the record history, and every failing call appends none.
C5_OneRecordPerSuccess ==
    [][ outcome'.call \in OperationNames
            => IF outcome'.kind = "return"
               THEN \E timestamp \in Timestamps :
                        history_data' =
                            Append(history_data,
                                   Row(timestamp, outcome'.call,
                                       ToFloat(outcome'.args.a),
                                       ToFloat(outcome'.args.b),
                                       ToFloat(outcome'.value.dec)))
               ELSE history_data' = history_data ]_vars

\* an add, then a subtract, then a failing divide: two records, the last
\* one the subtract
C5_Witness ==
    /\ outcome.call = "divide"
    /\ outcome.kind = "raise"
    /\ Len(history_data) = 2
    /\ history_data[1].operation = "add"
    /\ history_data[2].operation = "subtract"

\* C6: after every successful operation call, every clear_history and
\* every successful delete_history_record, the file history_file holds
\* exactly the records of the in-memory record history, in the same order.
C6_FileHoldsHistory ==
    (/\ constructed
     /\ outcome.kind = "return"
     /\ outcome.call \in OperationNames \cup { "clear_history", "delete_history_record" })
        => /\ files[history_file].exists
           /\ ReadCsv(files[history_file].lines) = history_data

\* C7: a Calculator constructed with a history_file that exists and holds
\* k records starts with those k records as its record history.
C7_StartsWithFileRecords ==
    (constructed /\ outcome.call = "Calculator")
        => history_data = ReadCsv(files[history_file].lines)

\* the record history without the row at position index (from 0)
WithoutRow(df, index) == SubSeq(df, 1, index) \o SubSeq(df, index + 2, Len(df))

\* C8: delete_history_record(i) with 0 <= i < n returns normally and
\* leaves the n-1 other records in their order, whether the
\* delete_history_record plugin is registered or not.
C8_DeleteRemovesRecord ==
    [][ (/\ outcome'.call = "delete_history_record"
         /\ outcome'.args.index >= 0
         /\ outcome'.args.index < Len(history_data))
            => /\ outcome'.kind = "return"
               /\ history_data' = WithoutRow(history_data, outcome'.args.index) ]_vars

\* C9: delete_history_record(i) with i < 0 or i >= len(history) raises a
\* ValueError and leaves the record history unchanged.
C9_DeleteOutOfRangeRaises ==
    [][ (/\ outcome'.call = "delete_history_record"
         /\ (outcome'.args.index < 0 \/ outcome'.args.index >= Len(history_data)))
            => /\ outcome'.kind = "raise"
               /\ outcome'.value.type = "ValueError"
               /\ history_data' = history_data ]_vars

\* an index past the end was refused on a history that holds records, on
\* the path without the delete_history_record plugin
C9_Witness ==
    /\ outcome.call = "delete_history_record"
    /\ outcome.kind = "raise"
    /\ Len(history_data) > 0
    /\ outcome.args.index >= Len(history_data)
    /\ GetPlugin(Registry, "history", "delete_history_record") = None

----------------------------------------------------------------------------
(* Properties of the registry, checked under SpecRegistry.                  *)

\* C10: the registry holds at most one descriptor per (category, name),
\* and get_plugin(category, name) returns the descriptor registered last
\* under that pair.
C10_LastRegisteredWins ==
    /\ Len(type_order) = Cardinality(DOMAIN plugins)
    /\ \A t \in DOMAIN plugins : \A n \in DOMAIN plugins[t] :
            << t, n >> \in DOMAIN reg_log
    /\ \A key \in DOMAIN reg_log :
            GetPlugin(Registry, key[1], key[2]) = reg_log[key]

\* ("operation", "mock") was registered as MockPluginB, together with
\* FormatMockPlugin, and then again as MockPlugin
C10_Witness ==
    /\ GetPlugin(Registry, "format", "mock") = "FormatMockPlugin"
    /\ GetPlugin(Registry, "operation", "mock") = "MockPlugin"

----------------------------------------------------------------------------
(* A Calculator and other callers of the shared registry                    *)
(* (get_plugin_manager() returns one PluginManager per process).            *)

\* the repository's modules and the package plugins.operations that
\* test_dynamic_plugin_loading puts on sys.path
SharedImportable ==
    [n \in RepoModules \cup { "plugins", "plugins.operations",
                              "plugins.operations.modulo" } |-> "ok"]

InitShared ==
    InitProcess({ MaxM }, { SharedImportable }, { [p \in Paths |-> AbsentFile] })

\* calls on callables of the facade, the ones of plugins added at run time
\* included
SharedCalls ==
    { << "add", One, One >>, << "divide", One, Zero >>,
      << "modulo", One, One >>, << "modulo", One, Zero >>,
      << "mock", One, One >>, << "mock", One, Zero >> }

\* Calculator.get_available_operations()
GetAvailableOperations(reg, ops) ==
    [n \in DOMAIN OperationsDict(reg, ops) |-> PluginType(OperationsDict(reg, ops)[n])]

NextShared ==
    \/ Calculator_init(None)
    \/ \E c \in SharedCalls : Calculator_operation(c[1], c[2], c[3])
    \/ Calculator_reload_plugins
    \/ Registry_discover_plugins("plugins.operations")
    \/ \E module \in { "mock_module", "mock_module_3" } :
            Registry_register_plugins_from_module(module)
    \/ Registry_get_plugin("operation", "modulo")
    \/ \E t \in { "operation", None } : Registry_get_plugins(t)

SpecShared == InitShared /\ [][NextShared]_vars

----------------------------------------------------------------------------
(* Properties of the shared registry and of reload_plugins, checked under   *)
(* SpecShared.                                                              *)

\* C11: the set of (category, name) keys of the registry never shrinks:
\* whatever call is made (discover_plugins, get_plugin, get_plugins,
\* reload_plugins), every key registered before it is registered after it.
C11_RegistryNeverShrinks ==
    [][ \A t \in DOMAIN plugins :
            /\ t \in DOMAIN plugins'
            /\ DOMAIN plugins[t] \subseteq DOMAIN plugins'[t] ]_vars

\* reload_plugins has run on a registry holding keys that its discovery
\* does not find again, and they are still there
C11_Witness ==
    /\ outcome.call = "reload_plugins"
    /\ "format" \in DOMAIN plugins
    /\ "operation" \in DOMAIN plugins
    /\ { "add", "modulo", "mock" } \subseteq DOMAIN plugins["operation"]

----------------------------------------------------------------------------
(* Properties of the lookups and of discovery, checked under SpecRegistry.  *)

\* C12: a lookup of something absent returns and leaves the registry as it
\* was: get_plugin(category, name) returns None when the category or the
\* name is not registered, and get_plugins(category) returns an empty
\* mapping for an unknown category.
C12_AbsentLookupReturnsNothing ==
    [][ /\ (/\ outcome'.call = "get_plugin"
            /\ \/ outcome'.args.plugin_type \notin DOMAIN plugins
               \/ outcome'.args.plugin_name
                      \notin DOMAIN plugins[outcome'.args.plugin_type])
            => /\ outcome'.kind = "return"
               /\ outcome'.value.plugin = None
               /\ registryVars' = registryVars
        /\ (/\ outcome'.call = "get_plugins"
            /\ outcome'.args.plugin_type # None
            /\ outcome'.args.plugin_type \notin DOMAIN plugins)
            => /\ outcome'.kind = "return"
               /\ outcome'.value.dict = EmptyDict
               /\ registryVars' = registryVars ]_vars

\* get_plugin was asked for a name under an unknown category while the
\* name is registered under another one
C12_Witness ==
    /\ outcome.call = "get_plugin"
    /\ outcome.args.plugin_type = "nonexistent"
    /\ outcome.args.plugin_name = "mock"
    /\ outcome.value.plugin = None
    /\ GetPlugin(Registry, "operation", "mock") # None

\* the names registered under category t, by the record of registrations
RegisteredNames(t) == { key[2] : key \in { k \in DOMAIN reg_log : k[1] = t } }

\* the category created last among those that hold name n
LastCategoryWith(n) ==
    LET holders == { i \in 1 .. Len(type_order) : n \in DOMAIN plugins[type_order[i]] }
    IN  type_order[CHOOSE i \in holders : \A j \in holders : j <= i]

\* C13: get_plugins(category) returns exactly the name-to-descriptor
\* entries registered under that category; get_plugins(None) returns a
\* mapping whose keys are the names of all categories together, and a name
\* registered under several categories maps to the descriptor of the
\* category created last.
C13_GetPluginsEntries ==
    [][ outcome'.call = "get_plugins"
            => IF outcome'.args.plugin_type # None
               THEN /\ DOMAIN outcome'.value.dict
                          = RegisteredNames(outcome'.args.plugin_type)
                    /\ \A n \in DOMAIN outcome'.value.dict :
                          outcome'.value.dict[n]
                              = reg_log[<< outcome'.args.plugin_type, n >>]
               ELSE /\ DOMAIN outcome'.value.dict
                          = UNION { DOMAIN plugins[t] : t \in DOMAIN plugins }
                    /\ \A n \in DOMAIN outcome'.value.dict :
                          outcome'.value.dict[n] = reg_log[<< LastCategoryWith(n), n >>]
      ]_vars

\* get_plugins(None) on a registry that holds "mock" under "operation",
\* created first, and under "format", created later, with different
\* descriptors
C13_Witness ==
    /\ outcome.call = "get_plugins"
    /\ outcome.args.plugin_type = None
    /\ type_order = << "operation", "format" >>
    /\ GetPlugin(Registry, "operation", "mock") = "MockPluginB"
    /\ outcome.value.dict["mock"] = "FormatMockPlugin"

\* C14: discover_plugins(namespace) with a namespace that cannot be
\* resolved (its import raises ImportError) returns without raising and
\* leaves the registry exactly as it was.
C14_UnresolvedNamespaceIsSkipped ==
    [][ (/\ outcome'.call = "discover_plugins"
         /\ ImportStatus(importable, outcome'.args.package_name) = "ImportError")
            => /\ outcome'.kind = "return"
               /\ outcome'.value = NoneValue
               /\ registryVars' = registryVars ]_vars

\* the namespace of test_plugin_discovery was handed to a registry that
\* already holds plugins
C14_Witness ==
    /\ outcome.call = "discover_plugins"
    /\ outcome.args.package_name = "calculator.plugins.operations"
    /\ outcome.kind = "return"
    /\ GetPlugin(Registry, "operation", "add") = "AddPlugin"

\* the modules directly inside a package whose import succeeds
LoadableModules(imp, package_name) ==
    { PackageContents(package_name)[i][1] :
        i \in { j \in 1 .. Len(PackageContents(package_name)) :
                    /\ ~PackageContents(package_name)[j][2]
                    /\ ImportStatus(imp, PackageContents(package_name)[j][1]) = "ok" } }

\* C15: no error escapes discover_plugins, whatever the namespace and
\* whatever goes wrong while scanning: the call returns normally with no
\* value, and the descriptors of every module that did load are registered.
C15_NoErrorEscapesDiscovery ==
    [][ outcome'.call = "discover_plugins"
            => /\ outcome'.kind = "return"
               /\ outcome'.value = NoneValue
               /\ \A module \in LoadableModules(importable, outcome'.args.package_name) :
                    \A i \in 1 .. Len(ModuleClasses(module)) :
                        LET cls == ModuleClasses(module)[i]
                        IN  /\ PluginType(cls) \in DOMAIN plugins'
                            /\ PluginName(cls) \in DOMAIN plugins'[PluginType(cls)]
      ]_vars

----------------------------------------------------------------------------
(* Properties of the exposed callables, checked under SpecShared.           *)

\* C16: immediately after a Calculator is constructed and immediately
\* after each reload_plugins(), every descriptor registered under
\* "operation" has a callable of its name on the facade, and
\* get_available_operations() maps exactly those names to "operation".
C16_OperationsExposed ==
    (outcome.call \in { "Calculator", "reload_plugins" } /\ outcome.kind = "return")
        => /\ DOMAIN GetPlugins(Registry, "operation") \subseteq DOMAIN method_cache
           /\ GetAvailableOperations(Registry, operations)
                = [n \in DOMAIN GetPlugins(Registry, "operation") |-> "operation"]

\* reload_plugins has exposed operations that were registered after the
\* Calculator was constructed
C16_Witness ==
    /\ outcome.call = "reload_plugins"
    /\ outcome.kind = "return"
    /\ { "modulo", "mock" } \subseteq DOMAIN GetPlugins(Registry, "operation")
    /\ { "modulo", "mock" } \cap initial_methods = { }

\* C17: reload_plugins() is idempotent: a second call right after a first
\* one leaves get_available_operations() and the exposed callables as the
\* first call left them, and no reload changes either history.
C17_ReloadIdempotent ==
    [][ outcome'.call = "reload_plugins"
            => /\ history' = history
               /\ history_data' = history_data
               /\ (outcome.call = "reload_plugins" /\ outcome.kind = "return")
                    => /\ GetAvailableOperations([plugins |-> plugins',
                                                  type_order |-> type_order'],
                                                 operations')
                            = GetAvailableOperations(Registry, operations)
                       /\ method_cache' = method_cache ]_vars

\* a reload on a Calculator with both histories non-empty, after a plugin
\* was added at run time; a second reload from here is the same state
C17_Witness ==
    /\ outcome.call = "reload_plugins"
    /\ outcome.kind = "return"
    /\ Len(history) > 0
    /\ Len(history_data) > 0
    /\ "modulo" \in DOMAIN method_cache
    /\ "modulo" \notin initial_methods

----------------------------------------------------------------------------
(* The executable units on their own: a unit is constructed with two       *)
(* operands and then executed.                                              *)

\* operands of the units: zero, integers of both signs, fractions, and the
\* largest value that fits the context's precision
UnitOperands ==
    { Zero, One, Dec(-2, 1), Dec(3, 1), Dec(1, 2), Dec(1, 10), Dec(999, 1) }

UnitClasses == { "AddCommand", "SubtractCommand", "MultiplyCommand", "DivideCommand" }

\* Command.__init__(a, b) has returned
InitUnits ==
    /\ NoPrompt
    /\ history = << >>
    /\ max_history_size = MaxM
    /\ log = << >>
    /\ direct_add = FALSE
    /\ EmptyRegistry
    /\ NoCalculator
    /\ importable = AllImportable
    /\ files = [p \in Paths |-> AbsentFile]
    /\ \E cls \in UnitClasses, a \in UnitOperands, b \in UnitOperands :
            outcome = Call("Command", [command |-> Command(cls, a, b)],
                           Returned(None), NoneValue)

\* command.execute() on the unit just constructed
Unit_execute ==
    /\ outcome.call = "Command"
    /\ LET r == CommandExecute(outcome.args.command)
       IN  outcome' = Call("Command.execute", outcome.args, r, [dec |-> r.value])
    /\ UNCHANGED << promptVars, handlerVars, registryVars, calcVars, envVars >>

NextUnits == Unit_execute

SpecUnits == InitUnits /\ [][NextUnits]_vars

----------------------------------------------------------------------------
(* Properties of the units, checked under SpecUnits.                        *)

\* C19: for all operands a and b the add, subtract and multiply units
\* return a+b, a-b and a*b exactly, the divide unit returns the quotient
\* a/b when b is not zero, and add is commutative.
C19_UnitsComputeExactly ==
    [][ outcome'.call = "Command.execute"
            => LET cmd == outcome'.args.command
               IN  CASE cmd.class = "AddCommand"
                            -> /\ outcome'.kind = "return"
                               /\ outcome'.value.dec = DecAdd(cmd.a, cmd.b)
                               /\ CommandExecute(Command("AddCommand", cmd.b, cmd.a))
                                    = CommandExecute(cmd)
                     [] cmd.class = "SubtractCommand"
                            -> /\ outcome'.kind = "return"
                               /\ outcome'.value.dec = DecSub(cmd.a, cmd.b)
                     [] cmd.class = "MultiplyCommand"
                            -> /\ outcome'.kind = "return"
                               /\ outcome'.value.dec = DecMul(cmd.a, cmd.b)
                     [] cmd.class = "DivideCommand"
                            -> DecIsZero(cmd.b)
                                \/ /\ outcome'.kind = "return"
                                   /\ outcome'.value.dec
                                        = RoundToPrec(DecDiv(cmd.a, cmd.b)) ]_vars

\* C20: DivideCommand(a, b).execute() raises ValueError("Division by zero
\* is not allowed") if and only if b is exactly zero, for every a; for
\* every non-zero b, negative and fractional ones included, it returns a
\* result and raises nothing.
C20_DivideRaisesOnlyOnZero ==
    [][ (/\ outcome'.call = "Command.execute"
         /\ outcome'.args.command.class = "DivideCommand")
            => IF DecIsZero(outcome'.args.command.b)
               THEN /\ outcome'.kind = "raise"
                    /\ outcome'.value = [type |-> "ValueError",
                                         msg |-> "Division by zero is not allowed"]
               ELSE outcome'.kind = "return" ]_vars

----------------------------------------------------------------------------
(* The queries of the CommandHandler, checked under SpecHandler.            *)

\* C21: get_latest returns None exactly when the history is empty, and
\* otherwise the unit appended by the most recent successful execute, also
\* after evictions and after a clear followed by new executions; the call
\* leaves the history unchanged.
C21_GetLatestIsLastExecuted ==
    [][ outcome'.call = "get_latest"
            => /\ history' = history
               /\ (outcome'.value = NoneValue) <=> (history = << >>)
               /\ (~direct_add /\ log = << >>) => outcome'.value = NoneValue
               /\ (~direct_add /\ log # << >>)
                      => outcome'.value = [command |-> log[Len(log)]] ]_vars

\* get_latest was asked after an eviction, and the unit it returned is not
\* the first one executed
C21_Witness ==
    /\ outcome.call = "get_latest"
    /\ ~direct_add
    /\ Len(log) > Len(history)
    /\ Len(history) >= 2
    /\ outcome.value = [command |-> log[Len(log)]]
    /\ log[Len(log)] # history[1]

\* the positions of h that hold a unit of the given name
MatchingIndices(h, name) ==
    { i \in 1 .. Len(h) : CommandName(h[i].class) = name }

\* the k-th smallest element of a set of positions
KthIndex(S, k) == CHOOSE i \in S : Cardinality({ j \in S : j <= i }) = k

\* C22: find_by_command_name(name) returns exactly the units of the history
\* whose name is the given name, in their insertion order (an empty
\* sequence when none match), and leaves the history unchanged.
C22_FindByNameFiltersInOrder ==
    [][ outcome'.call = "find_by_command_name"
            => LET found == outcome'.value.found
                   S == MatchingIndices(history, outcome'.args.name)
               IN  /\ history' = history
                   /\ Len(found) = Cardinality(S)
                   /\ \A k \in 1 .. Len(found) :
                          found[k] = history[KthIndex(S, k)] ]_vars

\* two different units of the asked name were found around a unit of
\* another name
C22_Witness ==
    /\ outcome.call = "find_by_command_name"
    /\ Len(history) = 3
    /\ Len(outcome.value.found) = 2
    /\ outcome.value.found[1] = history[1]
    /\ outcome.value.found[2] = history[3]
    /\ history[1] # history[3]

----------------------------------------------------------------------------
(* More properties of the Calculator, checked under Spec.                   *)

\* C23: clear_history leaves the record history empty whatever it held
\* before, with the clear_history plugin registered and with the plugin
\* missing (the fallback path), and never raises.
C23_ClearEmptiesRecords ==
    [][ outcome'.call = "clear_history"
            => /\ history_data' = EmptyDataFrame
               /\ outcome'.kind = "return" ]_vars

\* clear_history took the fallback path after operations had been recorded
C23_Witness ==
    /\ outcome.call = "clear_history"
    /\ outcome.kind = "return"
    /\ GetPlugin(Registry, "history", "clear_history") = None
    /\ Len(history) > 0
    /\ history_data = EmptyDataFrame

----------------------------------------------------------------------------
(* More properties of a Calculator on the shared registry, checked under    *)
(* SpecShared.                                                              *)

\* C24: after reload_plugins, every exposed operation callable builds its
\* unit with the command class of the descriptor the registry holds under
\* ("operation", name), also when that descriptor was overwritten by a
\* later registration after the callable was first exposed.
C24_CallablesFollowRegistry ==
    (outcome.call = "reload_plugins" /\ outcome.kind = "return")
        => \A n \in DOMAIN method_cache :
              GetPlugin(Registry, "operation", n) # None
                  => method_cache[n].command_class
                        = PluginCommandClass(GetPlugin(Registry, "operation", n))

\* C25: in every reachable state of a Calculator, also after another caller
\* ran discover_plugins on the shared registry and before any
\* reload_plugins, every name of get_available_operations() has a callable
\* member on the Calculator.
C25_AvailableAreExposed ==
    constructed
        => DOMAIN GetAvailableOperations(Registry, operations)
              \subseteq DOMAIN method_cache

----------------------------------------------------------------------------
(* The Calculator under every configured MAX_HISTORY_SIZE.                  *)

InitSizes ==
    InitProcess(0 .. MaxM, { AllImportable }, { [p \in Paths |-> AbsentFile] })

SpecSizes == InitSizes /\ [][Next]_vars

\* C26: starting from a Calculator whose record history is empty, after N
\* successful operation calls with no clear_history or
\* delete_history_record in between, the record history holds all N
\* records, the dispatcher's history holds min(N, max_history_size) units,
\* and the names and operands of those units are those of the last
\* min(N, max_history_size) records, in the same order.
C26_RecordsAndUnitsAgree ==
    record_run >= 1
        => /\ Len(history_data) = record_run
           /\ Len(history) = Min(record_run, max_history_size)
           /\ \A i \in 1 .. Len(history) :
                LET record == history_data[Len(history_data) - Len(history) + i]
                IN  /\ record.operation = CommandName(history[i].class)
                    /\ record.a = ToFloat(history[i].a)
                    /\ record.b = ToFloat(history[i].b)

----------------------------------------------------------------------------
(* The frame of the record-history calls, checked under Spec.               *)

\* C27: clear_history and delete_history_record of the Calculator change
\* only the record history: the dispatcher's command history, the registry
\* and the exposed callables are left as they were.
C27_RemovalsKeepDispatcherAndRegistry ==
    [][ outcome'.call \in { "clear_history", "delete_history_record" }
            => /\ history' = history
               /\ max_history_size' = max_history_size
               /\ plugins' = plugins
               /\ type_order' = type_order
               /\ operations' = operations
               /\ method_cache' = method_cache ]_vars

\* records were removed while the dispatcher still holds the units that
\* produced them
C27_Witness ==
    /\ outcome.call \in { "clear_history", "delete_history_record" }
    /\ outcome.kind = "return"
    /\ record_run = 0
    /\ history_data = EmptyDataFrame
    /\ Len(history) >= 2
    /\ DOMAIN method_cache # { }

\* C28: get_pandas_history(limit) returns all records when limit is None
\* or at least the number of records, and for 0 <= limit < len(history)
\* exactly the most recent limit records in their original order; the
\* stored record history is unchanged in every case.
C28_LimitKeepsMostRecent ==
    [][ outcome'.call = "get_pandas_history"
            => LET limit == outcome'.args.limit
                   frame == outcome'.value.frame
                   n == Len(history_data)
               IN  /\ history_data' = history_data
                   /\ files' = files
                   /\ outcome'.kind = "return"
                   /\ limit = NoLimit => frame = history_data
                   /\ (limit # NoLimit /\ limit.int >= n) => frame = history_data
                   /\ (limit # NoLimit /\ 0 <= limit.int /\ limit.int < n)
                          => frame = LastN(history_data, limit.int) ]_vars

\* a limit of one returned the newer of two different records
C28_Witness ==
    /\ outcome.call = "get_pandas_history"
    /\ outcome.args.limit = Limit(1)
    /\ Len(history_data) = 2
    /\ history_data[1] # history_data[2]
    /\ outcome.value.frame = << history_data[2] >>

\* the save step of a facade call that leaves the records hd raises
SaveStepRaises(reg, hf, hd, fs) ==
    LET save_plugin == GetPlugin(reg, "history", "save_history")
    IN  /\ save_plugin # None
        /\ ~HistoryCommandExecute(
                PluginCommandClass(save_plugin),
                HistoryCommandInit([kwargs |-> [file_path |-> hf, history_data |-> hd]]),
                fs).result.ok

\* C29: when persisting the history fails during a facade operation call
\* (the save step raises), the call still returns the computed result,
\* raises nothing to the caller, and the record of the call is in the
\* in-memory record history.
C29_SaveFailureIsSwallowed ==
    [][ ( /\ constructed
          /\ outcome'.call \in DOMAIN method_cache
          /\ CommandExecute(Command(method_cache[outcome'.call].command_class,
                                    outcome'.args.a, outcome'.args.b)).ok
          /\ SaveStepRaises(Registry, history_file, history_data', files) )
            => LET computed ==
                       CommandExecute(Command(method_cache[outcome'.call].command_class,
                                              outcome'.args.a, outcome'.args.b)).value
                   n == Len(history_data)
               IN  /\ outcome'.kind = "return"
                   /\ outcome'.value = [dec |-> computed]
                   /\ Len(history_data') = n + 1
                   /\ SubSeq(history_data', 1, n) = history_data
                   /\ history_data'[n + 1].operation = outcome'.call
                   /\ history_data'[n + 1].a = ToFloat(outcome'.args.a)
                   /\ history_data'[n + 1].b = ToFloat(outcome'.args.b)
                   /\ history_data'[n + 1].result = ToFloat(computed) ]_vars

\* an operation returned its result while the save raised: the record is
\* in memory and the history file does not hold it
C29_Witness ==
    /\ constructed
    /\ outcome.call = "divide"
    /\ outcome.kind = "return"
    /\ outcome.value = [dec |-> One]
    /\ SaveStepRaises(Registry, history_file, history_data, files)
    /\ Len(history_data) = 2
    /\ history_data[2].operation = "divide"
    /\ files[history_file] # FileWith(history_data)

----------------------------------------------------------------------------
(* The interactive loops of main.py: the calculator prompt of main() and    *)
(* the prompt of history_mode().                                            *)

\* most lines typed before the input ends
MaxInput == 3

\* what is typed at a prompt; "^C" stands for a keyboard interrupt
Lines == { "exit", "history-mode", "0 0 add", "1 0 divide", "", "^C" }

\* process_command: args[2], Decimal(args[0]) and Decimal(args[1]) of a line
ParseLine(line) ==
    CASE line = "0 0 add" -> << "add", Zero, Zero >>
      [] line = "1 0 divide" -> << "divide", One, Zero >>

\* input(): the next line, EOFError once the input is exhausted
Input(in) ==
    IF in = << >> THEN Raised("EOFError", "EOF when reading a line")
    ELSE IF Head(in) = "^C" THEN Raised("KeyboardInterrupt", "")
    ELSE Returned(Head(in))

\* the innermost prompt loop running
Running(which) == loops # << >> /\ loops[Len(loops)] = which

\* python main.py or python main.py history-mode, with some input, once
\* main() has constructed its Calculator
InitPrompt ==
    /\ history = << >>
    /\ max_history_size = MaxM
    /\ log = << >>
    /\ direct_add = FALSE
    /\ importable = AllImportable
    /\ LET fs1 == [[p \in Paths |-> AbsentFile]
                      EXCEPT ![CSV_HISTORY_FILE] = FileWith(EmptyDataFrame)]
           empty == [plugins |-> EmptyDict, type_order |-> << >>]
           d == DiscoverOperationsAndHistory(AllImportable, empty)
           reg1 == RegisterAll(empty, d.classes)
           methods == CreateOperationMethods(
                          EmptyDict, OperationsDict(reg1, GetOperations(reg1)))
       IN  /\ files = fs1
           /\ plugins = reg1.plugins
           /\ type_order = reg1.type_order
           /\ reg_log = LastRegistered(EmptyDict, d.classes)
           /\ outcome = Call("Calculator", [history_file |-> None], d.result, NoneValue)
           /\ constructed = TRUE
           /\ history_file = CSV_HISTORY_FILE
           /\ operations = GetOperations(reg1)
           /\ history_data = LoadHistory(reg1, CSV_HISTORY_FILE, fs1)
           /\ method_cache = methods
           /\ initial_methods = DOMAIN methods
           /\ record_run = 0
    /\ stdin \in UNION { [1 .. n -> Lines] : n \in 0 .. MaxInput }
    /\ loops \in { << "main" >>, << "history" >> }
    /\ printed = ""
    /\ pending = << >>

\* the input() call at the top of the innermost loop
Prompt_input ==
    /\ constructed
    /\ loops # << >>
    /\ pending = << >>
    /\ pending' = << Input(stdin) >>
    /\ stdin' = IF stdin = << >> THEN stdin ELSE Tail(stdin)
    /\ UNCHANGED << loops, printed, outcome, handlerVars, registryVars, calcVars,
                    envVars >>

\* the rest of one pass through the while loop of main(); a calculation
\* line goes through process_command to the Calculator's callable
Main_loop ==
    /\ constructed
    /\ Running("main")
    /\ pending # << >>
    /\ pending' = << >>
    /\ LET r == pending[1]
       IN  IF ~r.ok /\ r.value.type = "KeyboardInterrupt"
           THEN /\ loops' = SubSeq(loops, 1, Len(loops) - 1)
                /\ printed' = "Exiting..."
                /\ UNCHANGED << history, history_data, files, outcome, record_run >>
           ELSE IF ~r.ok
           THEN /\ printed' = "Error: EOF when reading a line"
                /\ UNCHANGED << loops, history, history_data, files, outcome,
                                record_run >>
           ELSE IF r.value = ""
           THEN UNCHANGED << loops, printed, history, history_data, files, outcome,
                             record_run >>
           ELSE IF r.value = "exit"
           THEN /\ loops' = SubSeq(loops, 1, Len(loops) - 1)
                /\ UNCHANGED << printed, history, history_data, files, outcome,
                                record_run >>
           ELSE IF r.value = "history-mode"
           THEN /\ loops' = Append(loops, "history")
                /\ printed' = "History Management Mode"
                /\ UNCHANGED << history, history_data, files, outcome, record_run >>
           ELSE \E timestamp \in Timestamps, c \in { ParseLine(r.value) } :
                \E x \in { CallOperation(Registry, history, max_history_size,
                                          history_file, history_data, files,
                                          method_cache[c[1]], timestamp, c[2], c[3]) } :
                      /\ history' = x.history
                      /\ history_data' = x.history_data
                      /\ files' = x.files
                      /\ outcome' = Call(c[1], [a |-> c[2], b |-> c[3]], x.result,
                                         [dec |-> x.result.value])
                      /\ record_run' = RunAfterCall(record_run, history_data, x.result.ok)
                      /\ printed' = IF x.result.ok THEN "a op b = result"
                                    ELSE "Error: Division by zero is not allowed"
                      /\ UNCHANGED loops
    /\ UNCHANGED << stdin, max_history_size, log, direct_add, registryVars, importable,
                    constructed, history_file, operations, method_cache,
                    initial_methods >>

\* the rest of one pass through the while loop of history_mode()
History_loop ==
    /\ constructed
    /\ Running("history")
    /\ pending # << >>
    /\ pending' = << >>
    /\ LET r == pending[1]
       IN  IF ~r.ok /\ r.value.type = "KeyboardInterrupt"
           THEN /\ loops' = SubSeq(loops, 1, Len(loops) - 1)
                /\ printed' = "Returning to calculator"
           ELSE IF ~r.ok
           THEN /\ printed' = "Error: EOF when reading a line"
                /\ UNCHANGED loops
           ELSE IF r.value = ""
           THEN UNCHANGED << loops, printed >>
           ELSE IF r.value = "exit"
           THEN /\ loops' = SubSeq(loops, 1, Len(loops) - 1)
                /\ printed' = "Returning to calculator"
           ELSE /\ printed' = "Unknown command"
                /\ UNCHANGED loops
    /\ UNCHANGED << stdin, outcome, handlerVars, registryVars, calcVars, envVars >>

NextPrompt ==
    \/ Prompt_input
    \/ Main_loop
    \/ History_loop

\* the interpreter keeps running the program while it has a step to take
SpecPrompt == InitPrompt /\ [][NextPrompt]_vars /\ WF_vars(NextPrompt)

\* C30: the interactive loops eventually terminate once their input is
\* exhausted: the end-of-input condition raised by the prompt ends the
\* loop, as the exit command and a keyboard interrupt do, instead of being
\* handled as an ordinary command error and prompting again for ever.
C30_LoopsEndWithInput == (stdin = << >>) ~> (loops = << >>)

====
